---- MODULE Spec2Model ----
(***************************************************************************)
(* Resource-lifecycle layer of axplat-aarch64-sel4: the virtual frame      *)
(* allocator for IPC buffers (mem.rs), the untyped pool (utils/obj.rs) and *)
(* the construction / destruction protocol of Sel4Task (utils/task.rs).    *)
(***************************************************************************)
EXTENDS Integers, Sequences, FiniteSets, TLC

\* ------------------------------------------------------------------ bounds
\* Number of pages of the reserved IPC range (VIRT_FRAME_SIZE / PAGE_SIZE).
NumPages == 3
\* Number of fresh 2 MiB units the object factory can hand out.
MaxUnits == 2

\* ------------------------------------------------------- program constants
PAGE_SIZE == 4096
ALLOC_SIZE_BITS == 21
NUM_LEVELS == 4

\* First page number of the reserved IPC range (VIRT_FRAME_ADDR / PAGE_SIZE).
VIRT_FRAME_ADDR == 2 * PAGE_SIZE
VIRT_FRAME_SIZE == NumPages * PAGE_SIZE

\* Option<usize>: the empty sequence is None, <<v>> is Some(v).
None == <<>>
Some(v) == <<v>>

Contains(s, v) == \E i \in 1..Len(s) : s[i] = v
Front(s) == SubSeq(s, 1, Len(s) - 1)
Last(s) == s[Len(s)]
NoDup(s) == \A i, j \in 1..Len(s) : i # j => s[i] # s[j]

\* ------------------------------------------------------ VirtFrameAllocator
\* VirtFrameAllocator::new
VirtFrameAllocator_new ==
  [current |-> VIRT_FRAME_ADDR \div PAGE_SIZE,
   end |-> (VIRT_FRAME_ADDR + VIRT_FRAME_SIZE) \div PAGE_SIZE,
   recycled |-> <<>>]

\* A wrong alloc: the recycled page is returned but left on the list.
alloc_nopop(a) ==
  IF a.current = a.end
  THEN IF a.recycled # <<>>
       THEN [res |-> Some(Last(a.recycled)), st |-> a]
       ELSE [res |-> None, st |-> a]
  ELSE [res |-> Some(a.current), st |-> [a EXCEPT !.current = @ + 1]]

\* A wrong alloc: the counter is bumped past the end of the range.
alloc_overrun(a) ==
  IF a.current = a.end /\ a.recycled # <<>>
  THEN [res |-> Some(Last(a.recycled)), st |-> [a EXCEPT !.recycled = Front(@)]]
  ELSE [res |-> Some(a.current), st |-> [a EXCEPT !.current = @ + 1]]

\* VirtFrameAllocator::alloc: the result and the allocator afterwards.
alloc(a) ==
  IF a.current = a.end
  THEN IF a.recycled # <<>>
       THEN [res |-> Some(Last(a.recycled)), st |-> [a EXCEPT !.recycled = Front(@)]]
       ELSE [res |-> None, st |-> a]
  ELSE [res |-> Some(a.current), st |-> [a EXCEPT !.current = @ + 1]]

\* VirtFrameAllocator::dealloc
dealloc(a, vpn) ==
  IF vpn < a.current /\ ~Contains(a.recycled, vpn)
  THEN [a EXCEPT !.recycled = Append(@, vpn)]
  ELSE a

\* ------------------------------------------------------------ untyped pool
\* The unit the object factory hands out after `n` earlier ones
\* (OBJ_ALLOCATOR.alloc_untyped): a unit never handed out before.
alloc_untyped(n) == n + 1

\* A wrong alloc_untyped_unit: the oldest recycled unit is taken (FIFO).
alloc_untyped_unit_fifo(pool, n) ==
  IF pool # <<>>
  THEN [cap |-> Head(pool), size |-> 2 ^ ALLOC_SIZE_BITS, pool |-> Tail(pool), n |-> n]
  ELSE [cap |-> alloc_untyped(n), size |-> 2 ^ ALLOC_SIZE_BITS, pool |-> pool, n |-> n + 1]

\* A wrong alloc_untyped_unit: the recycled unit is used but stays in the list.
alloc_untyped_unit_peek(pool, n) ==
  IF pool # <<>>
  THEN [cap |-> Last(pool), size |-> 2 ^ ALLOC_SIZE_BITS, pool |-> pool, n |-> n]
  ELSE [cap |-> alloc_untyped(n), size |-> 2 ^ ALLOC_SIZE_BITS, pool |-> pool, n |-> n + 1]

\* alloc_untyped_unit: (cap, size), the free list and the factory count afterwards.
alloc_untyped_unit(pool, n) ==
  IF pool # <<>>
  THEN [cap |-> Last(pool), size |-> 2 ^ ALLOC_SIZE_BITS, pool |-> Front(pool), n |-> n]
  ELSE [cap |-> alloc_untyped(n), size |-> 2 ^ ALLOC_SIZE_BITS, pool |-> pool, n |-> n + 1]

\* recycle_untyped_unit
recycle_untyped_unit(pool, cap) == Append(pool, cap)

\* ------------------------------------------------------- address space model
\* Pages one leaf page table covers in the model (512 on the hardware).
PtSpan == 2

\* The page table of level l (1 .. NUM_LEVELS - 1; level 0 is the vspace root)
\* that the walk to vaddr goes through.
PtOf(l, vaddr) ==
  <<l, IF l = NUM_LEVELS - 1 THEN (vaddr \div PAGE_SIZE) \div PtSpan ELSE 0>>

MissingLevels(pts, vaddr) == {l \in 1..(NUM_LEVELS - 1) : PtOf(l, vaddr) \notin pts}

\* page.frame_map(vspace, vaddr, ..): the kernel's answer.
frame_map(pts, frames, vaddr) ==
  IF MissingLevels(pts, vaddr) # {} THEN "FailedLookup"
  ELSE IF (vaddr \div PAGE_SIZE) \in frames THEN "DeleteFirst"
  ELSE "Ok"

\* pt_cap.pt_map(vspace, vaddr, ..): installs the table of the first missing level.
pt_map(pts, vaddr) ==
  LET m == MissingLevels(pts, vaddr)
      l == CHOOSE x \in m : \A y \in m : x <= y
  IN PtOf(l, vaddr)

RECURSIVE map_page_loop(_, _, _, _, _)
map_page_loop(n, pts, frames, vaddr, made) ==
  IF n = 0
  THEN [status |-> "panic", pts |-> pts, frames |-> frames, made |-> made]
  ELSE LET res == frame_map(pts, frames, vaddr)
       IN IF res = "Ok"
          THEN [status |-> "Ok", pts |-> pts,
                frames |-> frames \cup {vaddr \div PAGE_SIZE}, made |-> made]
          ELSE IF res = "FailedLookup"
          THEN LET pt == pt_map(pts, vaddr)
               IN map_page_loop(n - 1, pts \cup {pt}, frames, vaddr, made \cup {pt})
          ELSE [status |-> "panic", pts |-> pts, frames |-> frames, made |-> made]

\* A wrong map_page: the loop gives up two attempts early.
map_page_short(pts, frames, vaddr) == map_page_loop(NUM_LEVELS - 2, pts, frames, vaddr, {})

\* MemSpace::map_page: the page tables and frames of the vspace afterwards, the
\* page tables it made from the caller's allocator, and whether it panicked.
map_page(pts, frames, vaddr) == map_page_loop(NUM_LEVELS, pts, frames, vaddr, {})

\* ------------------------------------------------------------ memory space
LARGE_PAGE_SIZE == 2097152

\* Highest large-page index a caller of map_area names.
MaxV == 4
\* Large pages mem_allocator can hand out before its untyped is used up.
MaxLarge == 3
\* Largest number of large pages one map_area call asks for.
MaxArea == 2
\* Large pages one level-2 table covers in the model (512 on the hardware).
PdSpan == 2
\* Large pages of the boot heap (INIT_HEAP_SIZE / LARGE_PAGE_SIZE).
HeapPages == 1

\* The boot heap of the configuration: mapped by the root task before this
\* layer starts, at the top of the modelled virtual range.
INIT_HEAP_BASE == MaxV * LARGE_PAGE_SIZE
INIT_HEAP_SIZE == HeapPages * LARGE_PAGE_SIZE
\* common::root::translate_addr: the root task's fixed offset for the heap.
translate_addr(vaddr) == vaddr + HeapPages * LARGE_PAGE_SIZE
\* Physical address of the first large page mem_allocator retypes; the pages
\* that follow are contiguous.
PhysBase == 2 * LARGE_PAGE_SIZE

\* One entry of BTreeMap<usize, RawRange>: key and (start, end) of the range.
Region(vstart, pstart, pend) == [vstart |-> vstart, range |-> <<pstart, pend>>]

\* BTreeMap::insert: an entry with the same key is replaced.
insert(regions, vstart, range) ==
  {e \in regions : e.vstart # vstart} \cup {[vstart |-> vstart, range |-> range]}

\* MemSpace::init: the entry of the boot heap.
MemSpace_init(regions) ==
  LET paddr == translate_addr(INIT_HEAP_BASE)
  IN insert(regions, INIT_HEAP_BASE, <<paddr, paddr + INIT_HEAP_SIZE>>)

\* MemSpace::add_region
add_region(regions, vaddr, paddr, size) == insert(regions, vaddr, <<paddr, paddr + size>>)

\* A wrong virt_to_phys: the nearest entry at or below the address is used
\* without looking at its extent.
virt_to_phys_floor(regions, vaddr) ==
  LET below == {e \in regions : e.vstart <= vaddr}
  IN IF below # {}
     THEN LET e == CHOOSE x \in below : \A y \in below : y.vstart <= x.vstart
          IN e.range[1] + (vaddr - e.vstart)
     ELSE vaddr

\* MemSpace::virt_to_phys: regions.get(&vstart) with vstart the address
\* rounded down to a large page.
virt_to_phys(regions, vaddr) ==
  LET vstart == (vaddr \div LARGE_PAGE_SIZE) * LARGE_PAGE_SIZE
      hit == {e \in regions : e.vstart = vstart}
  IN IF hit # {}
     THEN LET e == CHOOSE x \in hit : TRUE
          IN e.range[1] + (vaddr - vstart)
     ELSE vaddr

\* MemSpace::phys_to_virt: the first entry, in key order, whose range holds
\* the address.
phys_to_virt(regions, paddr) ==
  LET hit == {e \in regions : e.range[1] <= paddr /\ paddr < e.range[2]}
  IN IF hit # {}
     THEN LET e == CHOOSE x \in hit : \A y \in hit : x.vstart <= y.vstart
          IN e.vstart + (paddr - e.range[1])
     ELSE paddr

\* The table of level l (1 .. NUM_LEVELS - 2) on the walk to a large page.
LargePtOf(l, vaddr) ==
  <<l, IF l = NUM_LEVELS - 2 THEN (vaddr \div LARGE_PAGE_SIZE) \div PdSpan ELSE 0>>

LargeMissing(pts, vaddr) == {l \in 1..(NUM_LEVELS - 2) : LargePtOf(l, vaddr) \notin pts}

\* A wrong kernel answer: a large page is mapped over one already there.
large_frame_map_remap(pts, mapped, vaddr) ==
  IF LargeMissing(pts, vaddr) # {} THEN "FailedLookup" ELSE "Ok"

\* page.frame_map(vspace, vaddr, ..) for a large page: the kernel's answer.
large_frame_map(pts, mapped, vaddr) ==
  IF LargeMissing(pts, vaddr) # {} THEN "FailedLookup"
  ELSE IF (vaddr \div LARGE_PAGE_SIZE) \in mapped THEN "DeleteFirst"
  ELSE "Ok"

\* alloc_pt() and pt_cap.pt_map(vspace, vaddr, ..): the first missing level.
large_pt_map(pts, vaddr) ==
  LET m == LargeMissing(pts, vaddr)
      l == CHOOSE x \in m : \A y \in m : x <= y
  IN LargePtOf(l, vaddr)

RECURSIVE map_large_page_loop(_, _, _, _)
map_large_page_loop(n, pts, mapped, vaddr) ==
  IF n = 0
  THEN [status |-> "panic", pts |-> pts, mapped |-> mapped]
  ELSE LET res == large_frame_map(pts, mapped, vaddr)
       IN IF res = "Ok"
          THEN [status |-> "Ok", pts |-> pts,
                mapped |-> mapped \cup {vaddr \div LARGE_PAGE_SIZE}]
          ELSE IF res = "FailedLookup"
          THEN map_large_page_loop(n - 1, pts \cup {large_pt_map(pts, vaddr)}, mapped, vaddr)
          ELSE [status |-> "panic", pts |-> pts, mapped |-> mapped]

\* MemSpace::map_large_page
map_large_page(pts, mapped, vaddr) ==
  IF vaddr % LARGE_PAGE_SIZE # 0
  THEN [status |-> "panic", pts |-> pts, mapped |-> mapped]
  ELSE map_large_page_loop(NUM_LEVELS, pts, mapped, vaddr)

\* mem_allocator.alloc_large_pages(n): the physical addresses of the n pages,
\* contiguous and in order, after `count` pages handed out before.
alloc_large_pages(count, n) ==
  [i \in 1..n |-> PhysBase + (count + i - 1) * LARGE_PAGE_SIZE]

\* The state of the memory space a map_area call works on.
MemState(regions, count, pts, mapped) ==
  [regions |-> regions, count |-> count, pts |-> pts, mapped |-> mapped]

\* What a map_area call did: whether it returned, the memory space afterwards,
\* the pages it allocated and the addresses it mapped, in order.
AreaResult(status, at, ms, caps, maps) ==
  [status |-> status, at |-> at, ms |-> ms, caps |-> caps, maps |-> maps]

\* The for loop of map_area from page i on.
RECURSIVE map_area_loop(_, _, _, _, _)
map_area_loop(i, caps, vaddr, ms, maps) ==
  IF i > Len(caps)
  THEN AreaResult("Ok", "none", ms, caps, maps)
  ELSE LET vaddr_offset == vaddr + (i - 1) * LARGE_PAGE_SIZE
           r == map_large_page(ms.pts, ms.mapped, vaddr_offset)
           ms1 == [ms EXCEPT !.pts = r.pts, !.mapped = r.mapped]
       IN IF r.status = "Ok"
          THEN map_area_loop(i + 1, caps, vaddr, ms1, Append(maps, vaddr_offset))
          ELSE AreaResult("panic", "map_large_page", ms1, caps, maps)

\* map_area from alloc_large_pages on.
map_area_body(ms, vaddr, size) ==
  LET n == size \div LARGE_PAGE_SIZE
  IN IF ms.count + n > MaxLarge
     THEN AreaResult("panic", "alloc_large_pages", ms, <<>>, <<>>)
     ELSE LET caps == alloc_large_pages(ms.count, n)
              ms1 == [ms EXCEPT !.count = @ + n]
          IN IF n = 0
             THEN AreaResult("panic", "caps[0]", ms1, caps, <<>>)
             ELSE LET r == map_area_loop(1, caps, vaddr, ms1, <<>>)
                  IN IF r.status = "Ok"
                     THEN [r EXCEPT !.ms.regions =
                             add_region(@, vaddr, caps[1], n * LARGE_PAGE_SIZE)]
                     ELSE r

\* A wrong map_area: the two assertions are left out.
map_area_unchecked(ms, vaddr, size) == map_area_body(ms, vaddr, size)

\* A wrong map_area: one entry per large page instead of one combined entry.
map_area_per_page(ms, vaddr, size) ==
  IF vaddr % LARGE_PAGE_SIZE # 0
  THEN AreaResult("panic", "assert_eq", ms, <<>>, <<>>)
  ELSE IF size = 0
  THEN AreaResult("panic", "assert", ms, <<>>, <<>>)
  ELSE LET r == map_area_body(ms, vaddr, size)
       IN IF r.status # "Ok"
          THEN r
          ELSE [r EXCEPT !.ms.regions =
                  ms.regions \cup
                  {Region(r.maps[i], r.caps[i], r.caps[i] + LARGE_PAGE_SIZE) :
                     i \in 1..Len(r.caps)}]

\* MemSpace::map_area
map_area(ms, vaddr, size) ==
  IF vaddr % LARGE_PAGE_SIZE # 0
  THEN AreaResult("panic", "assert_eq", ms, <<>>, <<>>)
  ELSE IF size = 0
  THEN AreaResult("panic", "assert", ms, <<>>, <<>>)
  ELSE map_area_body(ms, vaddr, size)

\* ------------------------------------------------------- interrupt registry
MAX_IRQ_COUNT == 1024

\* Capability slots alloc_slot can hand out to the registry.
MaxSlots == 4

\* Interrupt numbers callers name: one inside the handler table and the first
\* one beyond it.
Irqs == {1, MAX_IRQ_COUNT}
\* Handler functions callers register.
Handlers == {"h1", "h2"}
\* Execution contexts calling register / unregister.
IrqCtxs == {1, 2}

\* A BTreeMap<usize, cap> as a set of <<key, slot>> pairs with unique keys.
Keys(m) == {e[1] : e \in m}
Get(m, k) == IF k \in Keys(m) THEN Some((CHOOSE e \in m : e[1] = k)[2]) ELSE None
MapInsert(m, k, v) == {e \in m : e[1] # k} \cup {<<k, v>>}
MapRemove(m, k) == {e \in m : e[1] # k}

\* IrqCap::new; the null capability Notification::from_bits(0) is None.
IrqCap_new ==
  [enable |-> FALSE, global_notify |-> None, irq_handlers |-> {}, notifications |-> {}]

\* HandlerTable::new
HandlerTable_new == [k \in {i \in Irqs : i < MAX_IRQ_COUNT} |-> None]

\* A wrong register_handler: an occupied entry is overwritten.
register_handler_overwrite(table, irq, handler) ==
  IF irq < MAX_IRQ_COUNT
  THEN [ok |-> TRUE, table |-> [table EXCEPT ![irq] = Some(handler)]]
  ELSE [ok |-> FALSE, table |-> table]

\* IRQ_HANDLER_TABLE.register_handler(irq, handler)
register_handler(table, irq, handler) ==
  IF irq < MAX_IRQ_COUNT /\ table[irq] = None
  THEN [ok |-> TRUE, table |-> [table EXCEPT ![irq] = Some(handler)]]
  ELSE [ok |-> FALSE, table |-> table]

\* A wrong unregister_handler: the entry is returned but left in the table.
unregister_handler_keep(table, irq) ==
  IF irq < MAX_IRQ_COUNT
  THEN [res |-> table[irq], table |-> table]
  ELSE [res |-> None, table |-> table]

\* IRQ_HANDLER_TABLE.unregister_handler(irq)
unregister_handler(table, irq) ==
  IF irq < MAX_IRQ_COUNT
  THEN [res |-> table[irq], table |-> [table EXCEPT ![irq] = None]]
  ELSE [res |-> None, table |-> table]

\* IRQ_HANDLER_TABLE.handle(irq): the handler it calls, if any.
handle(table, irq) == IF irq < MAX_IRQ_COUNT THEN table[irq] ELSE None

\* A capability in the root cnode made by the registry.
Obj(slot, kind, irq) == [slot |-> slot, kind |-> kind, irq |-> irq]

\* The registry with the kernel state its calls touch: the slot counter, the
\* capabilities made and the IRQs whose handler capability has been issued.
IrqState(caps, next, objs, issued) ==
  [caps |-> caps, next |-> next, objs |-> objs, issued |-> issued]

\* IrqCap::register_sel4_irq(idx).  reissue: whether the root task hands out a
\* handler capability for an IRQ it has handed one out for before.
register_sel4_irq(st, idx, reissue) ==
  LET slot == st.next + 1
      st1 == [st EXCEPT !.next = slot]
  IN IF st.caps.global_notify = None
     THEN [status |-> "Err", st |-> st1]
     ELSE
       LET st2 == [st1 EXCEPT !.objs = @ \cup {Obj(slot, "notification", idx)},
                              !.caps.notifications = MapInsert(@, idx, slot)]
           irq_handler == slot + 1
           st3 == [st2 EXCEPT !.next = irq_handler]
       IN IF idx \in st.issued /\ ~reissue
          THEN [status |-> "Err", st |-> st3]
          ELSE [status |-> "Ok",
                st |-> [st3 EXCEPT !.objs = @ \cup {Obj(irq_handler, "irq_handler", idx)},
                                   !.issued = @ \cup {idx},
                                   !.caps.irq_handlers = MapInsert(@, idx, irq_handler)]]

\* IrqCap::remove_sel4_irq(idx)
remove_sel4_irq(caps, idx) ==
  [caps EXCEPT !.notifications = MapRemove(@, idx),
               !.irq_handlers = MapRemove(@, idx)]

\* IrqCap::enable_irqs
enable_irqs(caps) == [caps EXCEPT !.enable = TRUE]

\* A wrong disable_irqs: the interrupt records are dropped with the flag.
disable_irqs_teardown(caps) ==
  [caps EXCEPT !.enable = FALSE, !.irq_handlers = {}, !.notifications = {}]

\* IrqCap::disable_irqs
disable_irqs(caps) == [caps EXCEPT !.enable = FALSE]

\* IrqCap::ack_irq(idx): the handler capability acknowledged, if any.
ack_irq(caps, idx) == Get(caps.irq_handlers, idx)

\* A wrong handle_irq: the acknowledgment comes first.
handle_irq_ack_first == <<"ack_irq", "handle_trap">>

\* handle_irq: the two calls in program order.
handle_irq == <<"handle_trap", "ack_irq">>

\* ------------------------------------------------------------------- tasks
\* Execution contexts that construct and destroy tasks.
Procs == {1, 2}
\* Who makes a call: a task context <<p>>, or the direct caller of the allocator.
Client == <<>>

Units == 1..MaxUnits
Caps == {"tcb", "cnode", "ep", "ipc_buffer"}

Ev(k, c) == [k |-> k, c |-> c]

\* A wrong exit: the thread capability is deleted before it is revoked.
ExitOrder_delete_first ==
  << Ev("delete", "tcb"), Ev("revoke", "tcb"),
     Ev("revoke", "cnode"), Ev("delete", "cnode"),
     Ev("revoke", "ep"), Ev("delete", "ep"),
     Ev("revoke", "ipc_buffer"), Ev("delete", "ipc_buffer"),
     Ev("slot", "tcb"), Ev("slot", "cnode"), Ev("slot", "ep"), Ev("slot", "ipc_buffer"),
     Ev("dealloc", "-"), Ev("recycle", "-") >>

\* Sel4Task::exit: its calls in program order.
ExitOrder ==
  << Ev("revoke", "tcb"), Ev("delete", "tcb"),
     Ev("revoke", "cnode"), Ev("delete", "cnode"),
     Ev("revoke", "ep"), Ev("delete", "ep"),
     Ev("revoke", "ipc_buffer"), Ev("delete", "ipc_buffer"),
     Ev("slot", "tcb"), Ev("slot", "cnode"), Ev("slot", "ep"), Ev("slot", "ipc_buffer"),
     Ev("dealloc", "-"), Ev("recycle", "-") >>

\* A wrong exit: a failed revoke or delete is ignored.
ExitUnwrap_ignore == "continue"

\* Sel4Task::exit: `.unwrap()` on every revoke and delete.
ExitUnwrap == "panic"

\* Sel4Task::empty
Sel4Task_empty == [untyped |-> 0, ipc_buffer_addr |-> 0]

VARIABLES
  vp_allocator,      \* MEM_SPACE.vp_allocator
  RECYCLED_UNTYPED,  \* the free list of the untyped pool
  factoryCount,      \* units OBJ_ALLOCATOR.alloc_untyped has handed out
  retyped,           \* per unit: the live kernel objects retyped from it
  retypedPts,        \* per unit: the live page tables retyped from it
  vspacePts,         \* page tables installed in the vspace for the IPC range
                     \* (none at boot: the range is first touched by map_page)
  vspaceFrames,      \* page numbers with a frame mapped
  pc,                \* per context: where it is in new / exit
  task,              \* per context: the Sel4Task it builds or holds
  copies,            \* per context: capabilities copied into the task's cnode
  exitIdx,           \* per context: the next call of exit
  exitLog,           \* per context: the calls of its exit that took effect
  exitFailed,        \* per context: a revoke or delete of its exit failed
  slots,             \* per context: capability slots given back by recycle_slot
  taskPage,          \* per context: the IPC page its task holds
  ret,               \* per context: what the last Sel4Task::new returned
  panic,             \* the abort of the process: who and at which call
  held,              \* pages the direct caller of the allocator holds
  wellUsed,          \* no dealloc so far of a page its caller did not hold
  calls,             \* the last three direct calls of the frame allocator
  lastU,             \* the last direct call of the untyped pool
  lastExit,          \* the exit that has just completed
  rt                 \* the construction that directly follows an exit

VARIABLES
  regions,           \* MEM_SPACE.regions
  memInit,           \* MemSpace::init has run
  memCount,          \* large pages mem_allocator has handed out
  memPts,            \* page tables installed in the vspace above large pages
  memMapped,         \* indices of the large pages mapped in the vspace
  memPanic,          \* the call at which a memory-space operation aborted
  lastMap,           \* the last map_area call
  lastXl,            \* the last address translation
  lastPage           \* the last direct map_page / map_large_page call

VARIABLES
  irqCaps,           \* IRQ_CAPS
  handlerTable,      \* IRQ_HANDLER_TABLE
  nextSlot,          \* slots alloc_slot has handed out to the registry
  irqObjs,           \* capabilities the registry has made in the root cnode
  irqIssued,         \* IRQs whose handler capability the kernel has issued
  irqPc,             \* per context: the register / unregister call in progress
  irqPanic,          \* the call at which a registry operation aborted
  disp,              \* the dispatch in progress or last completed
  lastReg,           \* the last register call that returned
  lastSel4           \* the last register_sel4_irq call

allocVars == <<vp_allocator, held, wellUsed, calls, taskPage>>
poolVars == <<RECYCLED_UNTYPED, factoryCount, lastU>>
kernelVars == <<retyped, retypedPts, vspacePts, vspaceFrames, copies>>
exitVars == <<exitIdx, exitLog, exitFailed, slots>>
taskVars == <<pc, task, ret, panic, lastExit, rt>>
memVars == <<regions, memInit, memCount, memPts, memMapped, memPanic, lastMap, lastXl,
             lastPage>>
irqVars == <<irqCaps, handlerTable, nextSlot, irqObjs, irqIssued, irqPc, irqPanic,
             disp, lastReg, lastSel4>>
vars == <<vp_allocator, RECYCLED_UNTYPED, factoryCount, retyped, retypedPts, vspacePts,
          vspaceFrames, pc, task, copies, exitIdx, exitLog, exitFailed, slots,
          taskPage, ret, panic, held, wellUsed, calls, lastU, lastExit, rt,
          memVars, irqVars>>

Pages == (VIRT_FRAME_ADDR \div PAGE_SIZE) .. ((VIRT_FRAME_ADDR + VIRT_FRAME_SIZE) \div PAGE_SIZE - 1)

NoPanic == [by |-> Client, at |-> "none"]
NoPoolCall == [op |-> "none", cap |-> 0, size |-> 0, pre |-> <<>>, preCount |-> 0,
               post |-> <<>>, postCount |-> 0]

\* Large pages the boot heap occupies, mapped before this layer starts.
HeapMapped ==
  {(INIT_HEAP_BASE \div LARGE_PAGE_SIZE) + i : i \in 0..(HeapPages - 1)}
HeapPts ==
  {LargePtOf(l, INIT_HEAP_BASE + i * LARGE_PAGE_SIZE) :
     l \in 1..(NUM_LEVELS - 2), i \in 0..(HeapPages - 1)}

NoMap == [op |-> "none"]
NoCall == [op |-> "none"]
NoDispatch ==
  [idx |-> 0, badge |-> 0, h |-> None, slot |-> None, log |-> <<>>, clean |-> FALSE,
   bare |-> FALSE, enable |-> FALSE]
NoXl == [op |-> "none"]

\* Pages held by a live allocation: the direct caller's and the tasks'.
AllHeld == held \cup {taskPage[p][1] : p \in {q \in Procs : taskPage[q] # None}}

Init ==
  /\ vp_allocator = VirtFrameAllocator_new
  /\ RECYCLED_UNTYPED = <<>>
  /\ factoryCount = 0
  /\ retyped = [u \in Units |-> {}]
  /\ retypedPts = [u \in Units |-> {}]
  /\ vspacePts = {}
  /\ vspaceFrames = {}
  /\ pc = [p \in Procs |-> "idle"]
  /\ task = [p \in Procs |-> Sel4Task_empty]
  /\ copies = [p \in Procs |-> {}]
  /\ exitIdx = [p \in Procs |-> 1]
  /\ exitLog = [p \in Procs |-> <<>>]
  /\ exitFailed = [p \in Procs |-> FALSE]
  /\ slots = [p \in Procs |-> {}]
  /\ taskPage = [p \in Procs |-> None]
  /\ ret = [p \in Procs |-> "none"]
  /\ panic = NoPanic
  /\ held = {}
  /\ wellUsed = TRUE
  /\ calls = <<>>
  /\ lastU = NoPoolCall
  /\ lastExit = None
  /\ rt = None
  /\ regions = {}
  /\ memInit = FALSE
  /\ memCount = 0
  /\ memPts = HeapPts
  /\ memMapped = HeapMapped
  /\ memPanic = "none"
  /\ lastMap = NoMap
  /\ lastXl = NoXl
  /\ lastPage = NoMap
  /\ irqCaps = IrqCap_new
  /\ handlerTable = HandlerTable_new
  /\ nextSlot = 0
  /\ irqObjs = {}
  /\ irqIssued = {}
  /\ irqPc = [c \in IrqCtxs |-> NoCall]
  /\ irqPanic = "none"
  /\ disp = NoDispatch
  /\ lastReg = NoCall
  /\ lastSel4 = NoCall

\* The record of a direct call of the frame allocator.
AllocCall(r) ==
  [op |-> "alloc", arg |-> 0, res |-> r.res, pre |-> vp_allocator, post |-> r.st,
   argHeld |-> FALSE, resHeld |-> r.res # None /\ r.res[1] \in AllHeld]
DeallocCall(vpn, isHeld) ==
  [op |-> "dealloc", arg |-> vpn, res |-> None, pre |-> vp_allocator,
   post |-> dealloc(vp_allocator, vpn), argHeld |-> isHeld, resHeld |-> FALSE]
\* The history keeps the three most recent calls, the newest last.
Record(h, c) == IF Len(h) = 3 THEN Append(Tail(h), c) ELSE Append(h, c)

\* ---------------------------------------- direct calls of VirtFrameAllocator
\* vp_allocator.lock().alloc()
ClientAlloc ==
  /\ panic = NoPanic
  /\ LET r == alloc(vp_allocator)
     IN /\ vp_allocator' = r.st
        /\ held' = IF r.res # None THEN held \cup {r.res[1]} ELSE held
        /\ calls' = Record(calls, AllocCall(r))
  /\ UNCHANGED <<wellUsed, taskPage, pc, task, ret, panic>>
  /\ UNCHANGED <<poolVars, kernelVars, exitVars>>

\* vp_allocator.lock().dealloc(vpn)
ClientDealloc(vpn) ==
  /\ panic = NoPanic
  /\ vp_allocator' = dealloc(vp_allocator, vpn)
  /\ held' = held \ {vpn}
  /\ wellUsed' = (wellUsed /\ vpn \in held)
  /\ calls' = Record(calls, DeallocCall(vpn, vpn \in held))
  /\ UNCHANGED <<taskPage, pc, task, ret, panic>>
  /\ UNCHANGED <<poolVars, kernelVars, exitVars>>

\* ------------------------------------------------ direct calls of the pool
\* How long the free list may grow under the direct caller.
MaxPool == 5

PoolCall(op, cap, size, post, postCount) ==
  [op |-> op, cap |-> cap, size |-> size, pre |-> RECYCLED_UNTYPED,
   preCount |-> factoryCount, post |-> post, postCount |-> postCount]

\* alloc_untyped_unit()
PoolAlloc ==
  /\ panic = NoPanic
  /\ RECYCLED_UNTYPED # <<>> \/ factoryCount < MaxUnits
  /\ LET r == alloc_untyped_unit(RECYCLED_UNTYPED, factoryCount)
     IN /\ RECYCLED_UNTYPED' = r.pool
        /\ factoryCount' = r.n
        /\ lastU' = PoolCall("alloc", r.cap, r.size, r.pool, r.n)
  /\ UNCHANGED <<pc, task, ret, panic>>
  /\ UNCHANGED <<allocVars, kernelVars, exitVars>>

\* recycle_untyped_unit(cap), for any unit the factory has handed out
PoolRecycle(cap) ==
  /\ panic = NoPanic
  /\ Len(RECYCLED_UNTYPED) < MaxPool
  /\ RECYCLED_UNTYPED' = recycle_untyped_unit(RECYCLED_UNTYPED, cap)
  /\ lastU' = PoolCall("recycle", cap, 0, RECYCLED_UNTYPED', factoryCount)
  /\ UNCHANGED <<factoryCount, pc, task, ret, panic>>
  /\ UNCHANGED <<allocVars, kernelVars, exitVars>>

\* ------------------------------------------------------------ Sel4Task::new
\* Step 1: alloc_untyped_unit() and obj_allocator.init(untyped).
NewUnit(p) ==
  /\ panic = NoPanic
  /\ pc[p] = "idle"
  /\ RECYCLED_UNTYPED # <<>> \/ factoryCount < MaxUnits
  /\ LET r == alloc_untyped_unit(RECYCLED_UNTYPED, factoryCount)
     IN /\ RECYCLED_UNTYPED' = r.pool
        /\ factoryCount' = r.n
        /\ task' = [task EXCEPT ![p] = [Sel4Task_empty EXCEPT !.untyped = r.cap]]
  /\ pc' = [pc EXCEPT ![p] = "n_caps"]
  /\ ret' = [ret EXCEPT ![p] = "none"]
  /\ exitIdx' = [exitIdx EXCEPT ![p] = 1]
  /\ exitLog' = [exitLog EXCEPT ![p] = <<>>]
  /\ exitFailed' = [exitFailed EXCEPT ![p] = FALSE]
  /\ slots' = [slots EXCEPT ![p] = {}]
  /\ UNCHANGED <<allocVars, kernelVars, lastU, panic>>

\* A wrong construction: a failed copy or mint rolls back, releasing the three
\* objects and handing the unit back to the pool.
NewCaps_rollback(p) ==
  /\ panic = NoPanic
  /\ pc[p] = "n_caps"
  /\ \E f \in {"ok", "copy_tcb", "mint_parent_ep", "copy_ep"} :
       /\ copies' = [copies EXCEPT ![p] =
                       IF f = "ok" THEN {"tcb", "ep"} ELSE {}]
       /\ task' = [task EXCEPT ![p] = IF f = "ok" THEN @ ELSE Sel4Task_empty]
       /\ pc' = [pc EXCEPT ![p] = IF f = "ok" THEN "n_ipc" ELSE "idle"]
       /\ ret' = [ret EXCEPT ![p] = IF f = "ok" THEN "none" ELSE "Err"]
       /\ retyped' = [retyped EXCEPT ![task[p].untyped] =
                        IF f = "ok" THEN @ \cup {"cnode", "tcb", "ep"} ELSE {}]
       /\ RECYCLED_UNTYPED' =
            IF f = "ok" THEN RECYCLED_UNTYPED
            ELSE recycle_untyped_unit(RECYCLED_UNTYPED, task[p].untyped)
  /\ UNCHANGED <<factoryCount, lastU, panic>>
  /\ UNCHANGED <<retypedPts, vspacePts, vspaceFrames>>
  /\ UNCHANGED <<allocVars, exitVars>>

\* Steps 2-7: alloc_cnode, alloc_tcb, alloc_endpoint from the private allocator;
\* then copy tcb, mint the parent endpoint, copy the server endpoint, each ending
\* in `?`, so a failure returns Err with nothing released.
NewCaps(p) ==
  /\ panic = NoPanic
  /\ pc[p] = "n_caps"
  /\ \E f \in {"ok", "copy_tcb", "mint_parent_ep", "copy_ep"} :
       /\ copies' = [copies EXCEPT ![p] =
                       IF f = "ok" THEN {"tcb", "ep"} ELSE {}]
       /\ task' = [task EXCEPT ![p] = IF f = "ok" THEN @ ELSE Sel4Task_empty]
       /\ pc' = [pc EXCEPT ![p] = IF f = "ok" THEN "n_ipc" ELSE "idle"]
       /\ ret' = [ret EXCEPT ![p] = IF f = "ok" THEN "none" ELSE "Err"]
  /\ retyped' = [retyped EXCEPT ![task[p].untyped] = @ \cup {"cnode", "tcb", "ep"}]
  /\ UNCHANGED <<RECYCLED_UNTYPED, factoryCount, lastU, panic>>
  /\ UNCHANGED <<retypedPts, vspacePts, vspaceFrames>>
  /\ UNCHANGED <<allocVars, exitVars>>

\* Step 8, first half: MemSpace::alloc_ipc_buffer takes a page number under the
\* allocator lock; None becomes Err(NotEnoughMemory), which new unwraps.
NewIpcAlloc(p) ==
  /\ panic = NoPanic
  /\ pc[p] = "n_ipc"
  /\ LET r == alloc(vp_allocator)
     IN /\ vp_allocator' = r.st
        /\ taskPage' = [taskPage EXCEPT ![p] = r.res]
        /\ panic' = IF r.res = None THEN [by |-> <<p>>, at |-> "alloc_ipc_buffer"] ELSE panic
        /\ pc' = [pc EXCEPT ![p] = IF r.res = None THEN @ ELSE "n_map"]
  /\ UNCHANGED <<held, wellUsed, calls, task, ret>>
  /\ UNCHANGED <<poolVars, kernelVars, exitVars>>

\* Step 8, second half: allocator.alloc_page() and map_page at ipc_vpn * PAGE_SIZE.
\* Steps 9-12: tcb_configure, tcb_set_tls_base, tcb_set_sched_params, read and
\* write of the registers, each unwrapped; then Ok(task).
NewMapConfigure(p) ==
  /\ panic = NoPanic
  /\ pc[p] = "n_map"
  /\ \E f \in {"ok", "tcb_configure", "tcb_set_tls_base", "tcb_set_sched_params",
               "tcb_read_all_registers", "tcb_write_all_registers"} :
     LET u == task[p].untyped
         vaddr == taskPage[p][1] * PAGE_SIZE
         m == map_page(vspacePts, vspaceFrames, vaddr)
         good == m.status = "Ok" /\ f = "ok"
     IN /\ retyped' = [retyped EXCEPT ![u] = @ \cup {"page"}]
        /\ retypedPts' = [retypedPts EXCEPT ![u] = @ \cup m.made]
        /\ vspacePts' = m.pts
        /\ vspaceFrames' = m.frames
        /\ task' = [task EXCEPT ![p].ipc_buffer_addr = IF m.status = "Ok" THEN vaddr ELSE @]
        /\ panic' = IF m.status # "Ok" THEN [by |-> <<p>>, at |-> "map_page"]
                    ELSE IF f # "ok" THEN [by |-> <<p>>, at |-> f]
                    ELSE panic
        /\ pc' = [pc EXCEPT ![p] = IF good THEN "ready" ELSE @]
        /\ ret' = [ret EXCEPT ![p] = IF good THEN "Ok" ELSE @]
  /\ UNCHANGED <<copies>>
  /\ UNCHANGED <<allocVars, poolVars, exitVars>>

\* ----------------------------------------------------------- Sel4Task::exit
\* The effect of one revoke, delete or recycle_slot on the task's capabilities:
\* a delete destroys the object once no copy of the capability is left.
ExitApply(e, st) ==
  LET deleted == {c \in Caps : \E i \in 1..Len(st.log) : st.log[i] = Ev("delete", c)}
  IN [st EXCEPT
        !.log = Append(@, e),
        !.copies = IF e.k = "revoke" THEN @ \ {e.c}
                   ELSE IF e = Ev("delete", "cnode") THEN {}
                   ELSE @,
        !.gone = IF e.k # "delete" THEN @
                 ELSE IF e.c = "cnode" THEN @ \cup {"cnode"} \cup (st.copies \cap deleted)
                 ELSE IF e.c = "ipc_buffer" THEN @ \cup {"page"}
                 ELSE IF e.c \in st.copies THEN @ ELSE @ \cup {e.c},
        !.unmapped = @ \/ e = Ev("delete", "ipc_buffer"),
        !.slots = IF e.k = "slot" THEN @ \cup {e.c} ELSE @]

\* The calls of exit from the i-th on that touch only the task's own
\* capabilities, up to the next call on a shared pool; the failAt-th call fails.
RECURSIVE ExitLocal(_, _, _, _)
ExitLocal(order, i, failAt, st) ==
  IF i > Len(order) \/ order[i].k \notin {"revoke", "delete", "slot"}
  THEN [st EXCEPT !.idx = i]
  ELSE IF i = failAt /\ order[i].k \in {"revoke", "delete"}
  THEN IF ExitUnwrap = "panic"
       THEN [st EXCEPT !.idx = i, !.failed = TRUE, !.panicAt = order[i].k]
       ELSE ExitLocal(order, i + 1, failAt, [st EXCEPT !.failed = TRUE])
  ELSE ExitLocal(order, i + 1, failAt, ExitApply(order[i], st))

\* exit, part 1: the revokes, deletes and recycle_slot calls.
ExitCaps(p) ==
  /\ panic = NoPanic
  /\ pc[p] \in {"ready", "exit"}
  /\ exitIdx[p] <= Len(ExitOrder)
  /\ ExitOrder[exitIdx[p]].k \in {"revoke", "delete", "slot"}
  /\ \E failAt \in {0} \cup {i \in exitIdx[p]..Len(ExitOrder) :
                                ExitOrder[i].k \in {"revoke", "delete"}} :
       LET u == task[p].untyped
           vpn == task[p].ipc_buffer_addr \div PAGE_SIZE
           st == ExitLocal(ExitOrder, exitIdx[p], failAt,
                           [idx |-> exitIdx[p], log |-> exitLog[p], copies |-> copies[p],
                            gone |-> {}, unmapped |-> FALSE, slots |-> slots[p],
                            failed |-> FALSE, panicAt |-> "none"])
       IN /\ failAt = 0 \/ st.failed
          /\ exitIdx' = [exitIdx EXCEPT ![p] = st.idx]
          /\ exitLog' = [exitLog EXCEPT ![p] = st.log]
          /\ exitFailed' = [exitFailed EXCEPT ![p] = @ \/ st.failed]
          /\ slots' = [slots EXCEPT ![p] = st.slots]
          /\ copies' = [copies EXCEPT ![p] = st.copies]
          /\ retyped' = [retyped EXCEPT ![u] = @ \ st.gone]
          /\ vspaceFrames' = IF st.unmapped THEN vspaceFrames \ {vpn} ELSE vspaceFrames
          /\ panic' = IF st.panicAt # "none" THEN [by |-> <<p>>, at |-> st.panicAt]
                      ELSE panic
          /\ pc' = [pc EXCEPT ![p] =
                      IF st.panicAt = "none" /\ st.idx > Len(ExitOrder) THEN "idle"
                      ELSE "exit"]
          /\ task' = [task EXCEPT ![p] =
                        IF st.panicAt = "none" /\ st.idx > Len(ExitOrder)
                        THEN Sel4Task_empty ELSE @]
  /\ UNCHANGED <<retypedPts, vspacePts, ret>>
  /\ UNCHANGED <<allocVars, poolVars>>

\* exit, part 2: dealloc_ipc_buffer(self.ipc_buffer_addr), which hands
\* virt / PAGE_SIZE to the allocator under its lock.
ExitDealloc(p) ==
  /\ panic = NoPanic
  /\ pc[p] \in {"ready", "exit"}
  /\ exitIdx[p] <= Len(ExitOrder)
  /\ ExitOrder[exitIdx[p]].k = "dealloc"
  /\ LET vpn == task[p].ipc_buffer_addr \div PAGE_SIZE
     IN /\ vp_allocator' = dealloc(vp_allocator, vpn)
        /\ taskPage' = [taskPage EXCEPT ![p] = None]
  /\ exitLog' = [exitLog EXCEPT ![p] = Append(@, ExitOrder[exitIdx[p]])]
  /\ exitIdx' = [exitIdx EXCEPT ![p] = @ + 1]
  /\ pc' = [pc EXCEPT ![p] = IF exitIdx[p] = Len(ExitOrder) THEN "idle" ELSE "exit"]
  /\ task' = [task EXCEPT ![p] = IF exitIdx[p] = Len(ExitOrder) THEN Sel4Task_empty ELSE @]
  /\ UNCHANGED <<held, wellUsed, calls, exitFailed, slots, ret, panic>>
  /\ UNCHANGED <<poolVars, kernelVars>>

\* exit, part 3: recycle_untyped_unit(self.untyped).
ExitRecycle(p) ==
  /\ panic = NoPanic
  /\ pc[p] \in {"ready", "exit"}
  /\ exitIdx[p] <= Len(ExitOrder)
  /\ ExitOrder[exitIdx[p]].k = "recycle"
  /\ RECYCLED_UNTYPED' = recycle_untyped_unit(RECYCLED_UNTYPED, task[p].untyped)
  /\ exitLog' = [exitLog EXCEPT ![p] = Append(@, ExitOrder[exitIdx[p]])]
  /\ exitIdx' = [exitIdx EXCEPT ![p] = @ + 1]
  /\ pc' = [pc EXCEPT ![p] = IF exitIdx[p] = Len(ExitOrder) THEN "idle" ELSE "exit"]
  /\ task' = [task EXCEPT ![p] = IF exitIdx[p] = Len(ExitOrder) THEN Sel4Task_empty ELSE @]
  /\ UNCHANGED <<factoryCount, lastU, exitFailed, slots, ret, panic>>
  /\ UNCHANGED <<allocVars, kernelVars>>

\* ------------------------------------------------------------ bookkeeping
Constructing == {"n_caps", "n_ipc", "n_map"}

\* Notes the exit that has just returned and the construction that directly
\* follows it, with the pools as that construction found them.
Track(by) ==
  /\ lastExit' =
       IF by # Client /\ pc[by[1]] = "exit" /\ pc'[by[1]] = "idle"
       THEN Some([unit |-> task[by[1]].untyped,
                  vpn |-> task[by[1]].ipc_buffer_addr \div PAGE_SIZE])
       ELSE None
  /\ rt' =
       IF /\ by # Client
          /\ pc[by[1]] = "idle" /\ pc'[by[1]] = "n_caps"
          /\ lastExit # None
          /\ \A q \in Procs \ {by[1]} : pc[q] \in {"idle", "ready"}
       THEN Some([by |-> by[1], unit |-> lastExit[1].unit, vpn |-> lastExit[1].vpn,
                  current |-> vp_allocator.current, count |-> factoryCount])
       ELSE IF /\ rt # None
               /\ by = <<rt[1].by>>
               /\ pc[rt[1].by] \in Constructing
               /\ pc'[rt[1].by] \in Constructing \cup {"ready"}
       THEN rt
       ELSE None

Next ==
  \/ \E p \in Procs : NewUnit(p) /\ Track(<<p>>) /\ UNCHANGED <<memVars, irqVars>>
  \/ \E p \in Procs : NewCaps(p) /\ Track(<<p>>) /\ UNCHANGED <<memVars, irqVars>>
  \/ \E p \in Procs : NewIpcAlloc(p) /\ Track(<<p>>) /\ UNCHANGED <<memVars, irqVars>>
  \/ \E p \in Procs : NewMapConfigure(p) /\ Track(<<p>>) /\ UNCHANGED <<memVars, irqVars>>
  \/ \E p \in Procs : ExitCaps(p) /\ Track(<<p>>) /\ UNCHANGED <<memVars, irqVars>>
  \/ \E p \in Procs : ExitDealloc(p) /\ Track(<<p>>) /\ UNCHANGED <<memVars, irqVars>>
  \/ \E p \in Procs : ExitRecycle(p) /\ Track(<<p>>) /\ UNCHANGED <<memVars, irqVars>>

Spec == Init /\ [][Next]_vars

\* The frame allocator alone, under a direct caller that may dealloc any page
\* number.
NextVfa ==
  \/ ClientAlloc /\ Track(Client) /\ UNCHANGED <<memVars, irqVars>>
  \/ \E vpn \in Pages \cup {vp_allocator.end} : ClientDealloc(vpn) /\ Track(Client) /\ UNCHANGED <<memVars, irqVars>>

SpecVfa == Init /\ [][NextVfa]_vars

\* The frame allocator under a caller that passes dealloc any page number at
\* all, those below the reserved range included (dealloc_ipc_buffer divides
\* whatever address it is given by PAGE_SIZE).
NextVfaAny ==
  \/ ClientAlloc /\ Track(Client) /\ UNCHANGED <<memVars, irqVars>>
  \/ \E vpn \in 0..vp_allocator.end : ClientDealloc(vpn) /\ Track(Client) /\ UNCHANGED <<memVars, irqVars>>

SpecVfaAny == Init /\ [][NextVfaAny]_vars

\* The untyped pool alone, under a direct caller.
NextPool ==
  \/ PoolAlloc /\ Track(Client) /\ UNCHANGED <<memVars, irqVars>>
  \/ \E cap \in 1..factoryCount : PoolRecycle(cap) /\ Track(Client) /\ UNCHANGED <<memVars, irqVars>>

SpecPool == Init /\ [][NextPool]_vars

\* ------------------------------------------------------------ MemSpace calls
\* Everything outside the memory space's region bookkeeping.
nonMemVars == <<allocVars, poolVars, kernelVars, exitVars, taskVars, irqVars>>

\* Addresses callers of map_area name: aligned ones and ones a page off.
AreaAddrs ==
  {i * LARGE_PAGE_SIZE + d : i \in 0..MaxV, d \in {0, PAGE_SIZE}}
\* Sizes callers of map_area name: whole large pages and some with half a
\* large page more.
AreaSizes ==
  {k * LARGE_PAGE_SIZE + d : k \in 0..MaxArea, d \in {0, LARGE_PAGE_SIZE \div 2}}
\* Addresses handed to the translations: the first and the last byte of every
\* large page of the modelled virtual and physical ranges.
XlAddrs ==
  {i * LARGE_PAGE_SIZE + d :
     i \in 0..(MaxV + HeapPages + 1), d \in {0, LARGE_PAGE_SIZE - 1}}

\* MEM_SPACE.init()
MemInit ==
  /\ ~memInit
  /\ memPanic = "none"
  /\ memInit' = TRUE
  /\ regions' = MemSpace_init(regions)
  /\ lastXl' = NoXl
  /\ UNCHANGED <<memCount, memPts, memMapped, memPanic, lastMap, lastPage>>
  /\ UNCHANGED nonMemVars

\* MEM_SPACE.map_area(vaddr, size)
MapArea(vaddr, size) ==
  /\ memInit
  /\ memPanic = "none"
  /\ LET pre == MemState(regions, memCount, memPts, memMapped)
         r == map_area(pre, vaddr, size)
     IN /\ regions' = r.ms.regions
        /\ memCount' = r.ms.count
        /\ memPts' = r.ms.pts
        /\ memMapped' = r.ms.mapped
        /\ memPanic' = r.at
        /\ lastMap' = [op |-> "map_area", vaddr |-> vaddr, size |-> size,
                       pre |-> pre, res |-> r]
  /\ lastXl' = NoXl
  /\ UNCHANGED <<memInit, lastPage>>
  /\ UNCHANGED nonMemVars

\* MemIfImpl::virt_to_phys(vaddr)
VirtToPhys(vaddr) ==
  /\ memPanic = "none"
  /\ lastXl' = [op |-> "virt_to_phys", arg |-> vaddr,
                res |-> virt_to_phys(regions, vaddr), pre |-> regions]
  /\ UNCHANGED <<regions, memInit, memCount, memPts, memMapped, memPanic, lastMap, lastPage>>
  /\ UNCHANGED nonMemVars

\* MemIfImpl::phys_to_virt(paddr)
PhysToVirt(paddr) ==
  /\ memPanic = "none"
  /\ lastXl' = [op |-> "phys_to_virt", arg |-> paddr,
                res |-> phys_to_virt(regions, paddr), pre |-> regions]
  /\ UNCHANGED <<regions, memInit, memCount, memPts, memMapped, memPanic, lastMap, lastPage>>
  /\ UNCHANGED nonMemVars

\* The memory space alone: init, map_area and the two translations.
NextMem ==
  \/ MemInit
  \/ \E vaddr \in AreaAddrs, size \in AreaSizes : MapArea(vaddr, size)
  \/ \E vaddr \in XlAddrs : VirtToPhys(vaddr)
  \/ \E paddr \in XlAddrs : PhysToVirt(paddr)

SpecMem == Init /\ [][NextMem]_vars

\* ------------------------------------- direct calls of the two page mappers
\* The highest page number handed to map_page directly.
MaxMapPage == 5
\* Addresses alloc_ipc_buffer hands to map_page: whole pages.
MapAddrs == {i * PAGE_SIZE : i \in 0..MaxMapPage}
\* Addresses map_area hands to map_large_page: whole large pages.
LargeAddrs == {i * LARGE_PAGE_SIZE : i \in 0..MaxV}

\* What one call of a mapper found and left: the tables on the path of the
\* address that were missing, whether the page was mapped already, the tables
\* and pages the call added, and how it ended.
PageCall(op, vaddr, need, was, status, made, grew, page) ==
  [op |-> op, vaddr |-> vaddr, need |-> need, was |-> was, status |-> status,
   made |-> made, grew |-> grew, page |-> page]

\* MEM_SPACE.map_page(vaddr, page, allocator)
MapPageCall(vaddr) ==
  /\ panic = NoPanic
  /\ memPanic = "none"
  /\ LET r == map_page(vspacePts, vspaceFrames, vaddr)
     IN /\ vspacePts' = r.pts
        /\ vspaceFrames' = r.frames
        /\ panic' = IF r.status = "Ok" THEN panic ELSE [by |-> Client, at |-> "map_page"]
        /\ lastPage' = PageCall("map_page", vaddr,
                                {PtOf(l, vaddr) : l \in MissingLevels(vspacePts, vaddr)},
                                (vaddr \div PAGE_SIZE) \in vspaceFrames, r.status,
                                r.pts \ vspacePts, r.frames \ vspaceFrames,
                                vaddr \div PAGE_SIZE)
  /\ UNCHANGED <<regions, memInit, memCount, memPts, memMapped, memPanic, lastMap, lastXl>>
  /\ UNCHANGED <<retyped, retypedPts, copies>>
  /\ UNCHANGED <<allocVars, poolVars, exitVars, irqVars>>
  /\ UNCHANGED <<pc, task, ret, lastExit, rt>>

\* MEM_SPACE.map_large_page(vaddr, page)
MapLargePageCall(vaddr) ==
  /\ panic = NoPanic
  /\ memPanic = "none"
  /\ LET r == map_large_page(memPts, memMapped, vaddr)
     IN /\ memPts' = r.pts
        /\ memMapped' = r.mapped
        /\ memPanic' = IF r.status = "Ok" THEN memPanic ELSE "map_large_page"
        /\ lastPage' = PageCall("map_large_page", vaddr,
                                {LargePtOf(l, vaddr) : l \in LargeMissing(memPts, vaddr)},
                                (vaddr \div LARGE_PAGE_SIZE) \in memMapped, r.status,
                                r.pts \ memPts, r.mapped \ memMapped,
                                vaddr \div LARGE_PAGE_SIZE)
  /\ UNCHANGED <<regions, memInit, memCount, lastMap, lastXl>>
  /\ UNCHANGED nonMemVars

\* The two mappers alone, under a direct caller.
NextMap ==
  \/ \E vaddr \in MapAddrs : MapPageCall(vaddr)
  \/ \E vaddr \in LargeAddrs : MapLargePageCall(vaddr)

SpecMap == Init /\ [][NextMap]_vars

\* ------------------------------------------------- interrupt registry calls
\* Everything outside the interrupt registry.
nonIrqVars == <<allocVars, poolVars, kernelVars, exitVars, taskVars, memVars>>

CurIrq == IrqState(irqCaps, nextSlot, irqObjs, irqIssued)
SetIrq(st) ==
  /\ irqCaps' = st.caps
  /\ nextSlot' = st.next
  /\ irqObjs' = st.objs
  /\ irqIssued' = st.issued

\* The record of a register_sel4_irq call: the enable flag it ran under and
\* the capabilities it made.
Sel4Call(irq, r) ==
  [op |-> "register_sel4_irq", irq |-> irq, enable |-> irqCaps.enable,
   status |-> r.status, made |-> {o.kind : o \in r.st.objs \ irqObjs}]

\* The record of a register / unregister call that returned: the table entry
\* it found (had) and left (kept), what it returned, and whether it left the
\* handler table, the interrupt records, the slot counter and the kernel's
\* capabilities all as they were (quiet); whether the IRQ has a notification
\* alias or a handler capability recorded when the call returns (rec), and
\* whether the kernel has issued a handler capability for it by then (issued);
\* for unregister, whether no register_sel4_irq call ran between its two
\* statements (alone); for register, whether the call that returned before it
\* began was an unregister of the same IRQ (after).
RegCall(op, c, irq, h, had, res, kept, quiet) ==
  [op |-> op, irq |-> irq, h |-> h, had |-> had, ret |-> res,
   kept |-> kept, quiet |-> quiet,
   rec |-> irq \in Keys(irqCaps'.irq_handlers) \cup Keys(irqCaps'.notifications),
   issued |-> irq \in irqIssued',
   alone |-> (irqPc[c].op = "unregister" => irqPc[c].next = nextSlot),
   after |-> IF irqPc[c].op = "register"
             THEN irqPc[c].after
             ELSE op = "register" /\ lastReg.op = "unregister" /\ lastReg.irq = irq]

\* irq::init_later: IRQ_CAPS.lock().init().unwrap(); tcb_bind_notification
\* succeeds (ok) or fails.
InitLater ==
  /\ irqPanic = "none"
  /\ irqCaps.global_notify = None
  /\ \E ok \in BOOLEAN :
       /\ irqCaps' = [irqCaps EXCEPT !.global_notify = Some("notification"),
                                     !.enable = TRUE]
       /\ irqPanic' = IF ok THEN "none" ELSE "init_later"
  /\ UNCHANGED <<handlerTable, nextSlot, irqObjs, irqIssued, irqPc, disp, lastReg, lastSel4>>
  /\ UNCHANGED nonIrqVars

\* irq::enable_irqs
EnableIrqs ==
  /\ irqPanic = "none"
  /\ irqCaps' = enable_irqs(irqCaps)
  /\ UNCHANGED <<handlerTable, nextSlot, irqObjs, irqIssued, irqPc, irqPanic, disp,
                 lastReg, lastSel4>>
  /\ UNCHANGED nonIrqVars

\* irq::disable_irqs
DisableIrqs ==
  /\ irqPanic = "none"
  /\ irqCaps' = disable_irqs(irqCaps)
  /\ UNCHANGED <<handlerTable, nextSlot, irqObjs, irqIssued, irqPc, irqPanic, disp,
                 lastReg, lastSel4>>
  /\ UNCHANGED nonIrqVars

\* IrqIfImpl::set_enable(irq, enabled)
SetEnable(irq, enabled) ==
  /\ irqPanic = "none"
  /\ IF enabled
     THEN /\ nextSlot + 2 <= MaxSlots
          /\ \E reissue \in BOOLEAN :
               LET r == register_sel4_irq(CurIrq, irq, reissue)
               IN /\ SetIrq(r.st)
                  /\ irqPanic' = IF r.status = "Ok" THEN "none" ELSE "set_enable"
                  /\ lastSel4' = Sel4Call(irq, r)
     ELSE /\ lastSel4' = [op |-> "set_enable_false", irq |-> irq]
          /\ UNCHANGED <<irqCaps, nextSlot, irqObjs, irqIssued, irqPanic>>
  /\ UNCHANGED <<handlerTable, irqPc, disp, lastReg>>
  /\ UNCHANGED nonIrqVars

\* IrqIfImpl::register(irq, handler), up to the return of register_handler.
RegisterTable(c, irq, handler) ==
  /\ irqPanic = "none"
  /\ irqPc[c] = NoCall
  /\ UNCHANGED <<irqCaps, nextSlot, irqObjs, irqIssued, irqPanic, disp, lastSel4>>
  /\ LET r == register_handler(handlerTable, irq, handler)
         had == handle(handlerTable, irq)
     IN /\ r.ok => nextSlot + 2 <= MaxSlots
        /\ handlerTable' = r.table
        /\ irqPc' = IF r.ok
                    THEN [irqPc EXCEPT ![c] =
                            [op |-> "register", irq |-> irq, h |-> handler, had |-> had,
                             after |-> lastReg.op = "unregister" /\ lastReg.irq = irq]]
                    ELSE irqPc
        /\ lastReg' = IF r.ok
                      THEN lastReg
                      ELSE RegCall("register", c, irq, handler, had, FALSE,
                                   handle(r.table, irq),
                                   handlerTable' = handlerTable /\ CurIrq' = CurIrq)
  /\ UNCHANGED nonIrqVars

\* IrqIfImpl::register, the rest: IRQ_CAPS.lock().register_sel4_irq(irq).unwrap()
RegisterCaps(c) ==
  /\ irqPanic = "none"
  /\ irqPc[c].op = "register"
  /\ nextSlot + 2 <= MaxSlots
  /\ \E reissue \in BOOLEAN :
       LET r == register_sel4_irq(CurIrq, irqPc[c].irq, reissue)
       IN /\ SetIrq(r.st)
          /\ irqPanic' = IF r.status = "Ok" THEN "none" ELSE "register"
          /\ lastSel4' = Sel4Call(irqPc[c].irq, r)
          /\ lastReg' = IF r.status = "Ok"
                        THEN RegCall("register", c, irqPc[c].irq, irqPc[c].h,
                                     irqPc[c].had, TRUE,
                                     handle(handlerTable, irqPc[c].irq), FALSE)
                        ELSE lastReg
  /\ irqPc' = [irqPc EXCEPT ![c] = NoCall]
  /\ UNCHANGED <<handlerTable, disp>>
  /\ UNCHANGED nonIrqVars

\* IrqIfImpl::unregister(irq), first statement: IRQ_CAPS.lock().remove_sel4_irq(irq)
UnregisterCaps(c, irq) ==
  /\ irqPanic = "none"
  /\ irqPc[c] = NoCall
  /\ irqCaps' = remove_sel4_irq(irqCaps, irq)
  /\ irqPc' = [irqPc EXCEPT ![c] = [op |-> "unregister", irq |-> irq, next |-> nextSlot]]
  /\ UNCHANGED <<handlerTable, nextSlot, irqObjs, irqIssued, irqPanic, disp, lastReg, lastSel4>>
  /\ UNCHANGED nonIrqVars

\* IrqIfImpl::unregister, second statement: IRQ_HANDLER_TABLE.unregister_handler(irq)
UnregisterTable(c) ==
  /\ irqPanic = "none"
  /\ irqPc[c].op = "unregister"
  /\ UNCHANGED <<irqCaps, nextSlot, irqObjs, irqIssued, irqPanic, disp, lastSel4>>
  /\ LET r == unregister_handler(handlerTable, irqPc[c].irq)
     IN /\ handlerTable' = r.table
        /\ lastReg' = RegCall("unregister", c, irqPc[c].irq, None,
                              handle(handlerTable, irqPc[c].irq), r.res,
                              handle(r.table, irqPc[c].irq), FALSE)
  /\ irqPc' = [irqPc EXCEPT ![c] = NoCall]
  /\ UNCHANGED nonIrqVars

\* One call of handle_irq: its events appended to the log of the dispatch.
\* handle_trap!(IRQ, badge) reaches IrqIfImpl::handle, which calls the handler
\* the table holds for the badge, if any; ack_irq acknowledges the handler
\* capability recorded for the badge, if any.
DispatchCall(name, badge, log) ==
  IF name = "handle_trap"
  THEN LET h == handle(handlerTable, badge)
       IN IF h # None THEN Append(log, [ev |-> "invoke", h |-> h[1]]) ELSE log
  ELSE LET a == ack_irq(irqCaps, badge)
       IN IF a # None THEN Append(log, [ev |-> "ack", irq |-> badge]) ELSE log

\* handle_irq(badge) is entered and makes its first call.  The handler and
\* the handler capability the registry holds for the badge at this point are
\* noted.
DispatchStart(badge) ==
  /\ irqPanic = "none"
  /\ disp.idx = 0
  /\ disp' = [idx |-> 1, badge |-> badge,
              h |-> handle(handlerTable, badge),
              slot |-> Get(irqCaps.irq_handlers, badge),
              log |-> DispatchCall(handle_irq[1], badge, <<>>),
              clean |-> FALSE, bare |-> FALSE, enable |-> irqCaps.enable]
  /\ UNCHANGED <<irqCaps, handlerTable, nextSlot, irqObjs, irqIssued, irqPc, irqPanic,
                 lastReg, lastSel4>>
  /\ UNCHANGED nonIrqVars

\* handle_irq makes its next call; after the last one it returns.  clean: the
\* badge had a handler and a handler capability when the dispatch started and
\* has the same ones when it returns.  bare: the badge had no handler-table
\* entry when the dispatch started and has none when it returns.
DispatchStep ==
  /\ irqPanic = "none"
  /\ disp.idx > 0
  /\ LET i == disp.idx + 1
         last == i = Len(handle_irq)
     IN disp' = [disp EXCEPT
                   !.idx = IF last THEN 0 ELSE i,
                   !.log = DispatchCall(handle_irq[i], disp.badge, @),
                   !.clean = /\ last
                             /\ disp.h # None
                             /\ disp.slot # None
                             /\ handle(handlerTable, disp.badge) = disp.h
                             /\ Get(irqCaps.irq_handlers, disp.badge) = disp.slot,
                   !.bare = /\ last
                            /\ disp.h = None
                            /\ handle(handlerTable, disp.badge) = None]
  /\ UNCHANGED <<irqCaps, handlerTable, nextSlot, irqObjs, irqIssued, irqPc, irqPanic,
                 lastReg, lastSel4>>
  /\ UNCHANGED nonIrqVars

\* The context the IrqIf calls come from when they come from one only.
MainCtx == CHOOSE c \in IrqCtxs : \A d \in IrqCtxs : c <= d

\* The interrupt registry alone: boot, the IrqIf calls of one context and the
\* dispatch of badges, which runs beside them.
NextIrq ==
  \/ InitLater
  \/ EnableIrqs
  \/ DisableIrqs
  \/ \E irq \in Irqs, enabled \in BOOLEAN : SetEnable(irq, enabled)
  \/ \E c \in {MainCtx}, irq \in Irqs, handler \in Handlers : RegisterTable(c, irq, handler)
  \/ \E c \in {MainCtx} : RegisterCaps(c)
  \/ \E c \in {MainCtx}, irq \in Irqs : UnregisterCaps(c, irq)
  \/ \E c \in {MainCtx} : UnregisterTable(c)
  \/ \E badge \in Irqs : DispatchStart(badge)
  \/ DispatchStep

SpecIrq == Init /\ [][NextIrq]_vars

\* register and unregister issued from two execution contexts, their
\* statements interleaved in any order.
NextIrq2 ==
  \/ InitLater
  \/ \E c \in IrqCtxs, irq \in Irqs, handler \in Handlers : RegisterTable(c, irq, handler)
  \/ \E c \in IrqCtxs : RegisterCaps(c)
  \/ \E c \in IrqCtxs, irq \in Irqs : UnregisterCaps(c, irq)
  \/ \E c \in IrqCtxs : UnregisterTable(c)

SpecIrq2 == Init /\ [][NextIrq2]_vars

\* ------------------------------------------------------------------ claims
In(log, e) == \E i \in 1..Len(log) : log[i] = e
Pos(log, e) == CHOOSE i \in 1..Len(log) : log[i] = e
\* If b happened, a happened before it.
Before(log, a, b) == In(log, b) => (In(log, a) /\ Pos(log, a) < Pos(log, b))

\* C1: as long as every dealloc was of a page its caller held, alloc never
\* returns a page that a live allocation holds, no held page sits in the
\* recycled list, and the pages of two live tasks differ.
C1_AllocNeverReturnsHeldPage ==
  wellUsed =>
    /\ \A i \in 1..Len(calls) : calls[i].op = "alloc" => ~calls[i].resHeld
    /\ \A v \in AllHeld : ~Contains(vp_allocator.recycled, v)
    /\ \A p, q \in Procs : (p # q /\ taskPage[p] # None) => taskPage[p] # taskPage[q]

\* C1 witness: every page of the range is held at once, the last of them
\* handed out from the recycled list.
C1_Witness ==
  /\ wellUsed
  /\ held = Pages
  /\ calls # <<>>
  /\ Last(calls).op = "alloc"
  /\ Last(calls).pre.recycled # <<>>

\* C2: with the range fully allocated, alloc on an empty recycled list gives
\* None and changes nothing; dealloc(p) of a held page followed by alloc gives
\* p; and the alloc after that gives None again.
C2_Exhaustion ==
  \A i \in 1..Len(calls) :
    LET c == calls[i]
        full == c.pre.current = c.pre.end
    IN /\ (c.op = "alloc" /\ full /\ c.pre.recycled = <<>>)
            => (c.res = None /\ c.post = c.pre)
       /\ (wellUsed /\ c.op = "alloc" /\ full /\ c.res # None)
            => (~c.resHeld /\ c.res[1] \in Pages)
       /\ (wellUsed /\ c.op = "dealloc" /\ c.argHeld /\ full /\ i + 1 <= Len(calls)
             /\ calls[i + 1].op = "alloc")
            => /\ calls[i + 1].res = Some(c.arg)
               /\ (c.pre.recycled = <<>> /\ i + 2 <= Len(calls)
                     /\ calls[i + 2].op = "alloc")
                    => calls[i + 2].res = None

\* C2 witness: range full and recycled list empty, then dealloc(p) of a held
\* page, alloc returning p, alloc returning None.
C2_Witness ==
  /\ wellUsed
  /\ Len(calls) = 3
  /\ calls[1].op = "dealloc" /\ calls[1].argHeld
  /\ calls[1].pre.current = calls[1].pre.end /\ calls[1].pre.recycled = <<>>
  /\ calls[2].op = "alloc" /\ calls[2].res = Some(calls[1].arg)
  /\ calls[3].op = "alloc" /\ calls[3].res = None

\* C3: whenever the recycled list is not empty, alloc returns its most recently
\* deallocated page and does not advance current; so dealloc(p) of a held page
\* directly followed by alloc returns p.
C3_RecycleBeforeBump ==
  \A i \in 1..Len(calls) :
    LET c == calls[i]
    IN /\ (c.op = "alloc" /\ c.pre.recycled # <<>>)
            => (c.res = Some(Last(c.pre.recycled)) /\ c.post.current = c.pre.current)
       /\ (wellUsed /\ c.op = "dealloc" /\ c.argHeld /\ i + 1 <= Len(calls)
             /\ calls[i + 1].op = "alloc")
            => calls[i + 1].res = Some(c.arg)

\* C4: a construction that directly follows a completed exit takes the unit and
\* the IPC page that exit gave back: no fresh unit from the factory, and the
\* frame allocator's current not advanced.
C4_RoundTripReuses ==
  (rt # None /\ pc[rt[1].by] \in {"n_map", "ready"}) =>
    /\ task[rt[1].by].untyped = rt[1].unit
    /\ factoryCount = rt[1].count
    /\ taskPage[rt[1].by] = Some(rt[1].vpn)
    /\ vp_allocator.current = rt[1].current

\* C5: alloc_untyped_unit returns size 2 MiB; with a non-empty free list it
\* takes the most recently recycled unit and asks the factory for nothing; with
\* an empty one it takes a fresh unit; recycle_untyped_unit appends its
\* argument whatever the list holds.
C5_PoolLifo ==
  /\ lastU.op = "alloc" =>
       /\ lastU.size = 2097152
       /\ IF lastU.pre # <<>>
          THEN /\ lastU.cap = Last(lastU.pre)
               /\ lastU.post = Front(lastU.pre)
               /\ lastU.postCount = lastU.preCount
          ELSE /\ lastU.postCount = lastU.preCount + 1
               /\ lastU.cap > lastU.preCount
               /\ lastU.post = <<>>
  /\ lastU.op = "recycle" =>
       /\ lastU.post = Append(lastU.pre, lastU.cap)
       /\ lastU.postCount = lastU.preCount

\* C5 witness: an alloc from a free list whose newest and oldest units differ.
C5_Witness ==
  /\ lastU.op = "alloc"
  /\ Len(lastU.pre) >= 2
  /\ Head(lastU.pre) # Last(lastU.pre)
  /\ lastU.cap = Last(lastU.pre)

\* C6: no unit backs the allocators of two live tasks, no unit of a live task
\* is in the free list, and no unit is in the free list twice.
C6_UnitInOnePlace ==
  /\ \A p, q \in Procs :
       (p # q /\ task[p].untyped # 0) => task[p].untyped # task[q].untyped
  /\ \A p \in Procs :
       task[p].untyped # 0 => ~Contains(RECYCLED_UNTYPED, task[p].untyped)
  /\ NoDup(RECYCLED_UNTYPED)

\* C6 witness: one task destroyed, its unit back in the free list, while the
\* task of the other context is live on another unit.
C6_Witness ==
  \E p, q \in Procs :
    /\ pc[p] = "ready" /\ task[p].untyped # 0
    /\ pc[q] = "idle" /\ Len(exitLog[q]) = Len(ExitOrder)
    /\ RECYCLED_UNTYPED # <<>>
    /\ ~Contains(RECYCLED_UNTYPED, task[p].untyped)

\* C7: every unit in the free list has no live object retyped from it.
C7_PoolUnitsUnretyped ==
  \A i \in 1..Len(RECYCLED_UNTYPED) :
    /\ retyped[RECYCLED_UNTYPED[i]] = {}
    /\ retypedPts[RECYCLED_UNTYPED[i]] = {}

\* C8: exit revokes then deletes tcb, cnode, ep, ipc_buffer in that order, gives
\* back the four slots only after all four deletes, the IPC page after the
\* slots, and the unit last.
C8_ExitOrder ==
  \A p \in Procs :
    LET L == exitLog[p]
    IN /\ \A c \in Caps : Before(L, Ev("revoke", c), Ev("delete", c))
       /\ Before(L, Ev("delete", "tcb"), Ev("revoke", "cnode"))
       /\ Before(L, Ev("delete", "cnode"), Ev("revoke", "ep"))
       /\ Before(L, Ev("delete", "ep"), Ev("revoke", "ipc_buffer"))
       /\ \A c, d \in Caps : Before(L, Ev("delete", d), Ev("slot", c))
       /\ \A c \in Caps : Before(L, Ev("slot", c), Ev("dealloc", "-"))
       /\ Before(L, Ev("dealloc", "-"), Ev("recycle", "-"))
       /\ (slots[p] # {}) => \A c \in Caps : In(L, Ev("delete", c))
       /\ (pc[p] = "exit" /\ taskPage[p] = None) => slots[p] = Caps
       /\ (pc[p] = "exit" /\ Contains(RECYCLED_UNTYPED, task[p].untyped))
            => taskPage[p] = None

\* C8 witness: an exit has run to its end.
C8_Witness ==
  \E p \in Procs :
    /\ pc[p] = "idle"
    /\ Len(exitLog[p]) = Len(ExitOrder)
    /\ Last(exitLog[p]) = Ev("recycle", "-")

\* C9: once a revoke or delete of an exit has failed, the process has aborted
\* at that call: no slot given back, the IPC page still held and not in the
\* recycled list, the unit still the task's and not in the free list.
C9_ExitFailureAborts ==
  \A p \in Procs :
    exitFailed[p] =>
      /\ panic.by = <<p>>
      /\ panic.at \in {"revoke", "delete"}
      /\ slots[p] = {}
      /\ \A i \in 1..Len(exitLog[p]) : exitLog[p][i].k \in {"revoke", "delete"}
      /\ taskPage[p] # None
      /\ ~Contains(vp_allocator.recycled, taskPage[p][1])
      /\ task[p].untyped # 0
      /\ ~Contains(RECYCLED_UNTYPED, task[p].untyped)

\* C9 witness: an exit that failed after some of its calls had succeeded.
C9_Witness ==
  \E p \in Procs : exitFailed[p] /\ Len(exitLog[p]) >= 3

\* C10: no failure of a construction step aborts the process (a failure is
\* returned to the caller of new).
C10_ConstructionFailureReturned ==
  panic.at \in {"none", "revoke", "delete"}

\* ------------------------------------------------------ memory-space claims
\* The entry covers the virtual address.
Covers(e, a) == e.vstart <= a /\ a < e.vstart + (e.range[2] - e.range[1])
\* The entry's physical range holds the address.
Holds(e, q) == e.range[1] <= q /\ q < e.range[2]
\* The call has an aligned address and asks for k whole large pages, k >= 1.
WholePages(m) ==
  /\ m.vaddr % LARGE_PAGE_SIZE = 0
  /\ m.size > 0
  /\ m.size % LARGE_PAGE_SIZE = 0

\* C11: a virtual address inside a recorded region, anywhere in its extent,
\* translates to the region's physical start plus its offset, and a physical
\* address inside the region's physical range translates back the same way.
C11_TranslationFollowsRegion ==
  /\ lastXl.op = "virt_to_phys" =>
       \A e \in lastXl.pre :
         Covers(e, lastXl.arg) => lastXl.res = e.range[1] + (lastXl.arg - e.vstart)
  /\ lastXl.op = "phys_to_virt" =>
       \A e \in lastXl.pre :
         Holds(e, lastXl.arg) => lastXl.res = e.vstart + (lastXl.arg - e.range[1])

\* C12: translating a virtual address inside a recorded region to physical
\* and back gives the address again.
C12_RoundTrip ==
  (lastXl.op = "virt_to_phys" /\ \E e \in lastXl.pre : Covers(e, lastXl.arg))
    => phys_to_virt(regions, lastXl.res) = lastXl.arg

\* C13: a translation of an address no recorded region covers (virtual) or
\* holds (physical) returns the address unchanged; no translation aborts or
\* changes the Region Map.
C13_IdentityFallback ==
  /\ (lastXl.op = "virt_to_phys" /\ \A e \in lastXl.pre : ~Covers(e, lastXl.arg))
       => lastXl.res = lastXl.arg
  /\ (lastXl.op = "phys_to_virt" /\ \A e \in lastXl.pre : ~Holds(e, lastXl.arg))
       => lastXl.res = lastXl.arg
  /\ lastXl.op # "none" => (regions = lastXl.pre /\ memPanic = "none")

C13_Witness ==
  /\ lastXl.op = "virt_to_phys"
  /\ \E e \in regions : e.vstart < lastXl.arg
  /\ \A e \in regions : ~Covers(e, lastXl.arg)
  /\ lastXl.res = lastXl.arg

\* C14: map_area with an address that is not a multiple of 2 MiB, or with
\* size 0, aborts having allocated no large page, mapped nothing and added no
\* entry to the Region Map.
C14_MapAreaRejects ==
  (lastMap.op = "map_area"
   /\ (lastMap.vaddr % LARGE_PAGE_SIZE # 0 \/ lastMap.size = 0))
    => /\ lastMap.res.status = "panic"
       /\ memPanic # "none"
       /\ lastMap.res.caps = <<>>
       /\ lastMap.res.maps = <<>>
       /\ lastMap.res.ms = lastMap.pre
       /\ MemState(regions, memCount, memPts, memMapped) = lastMap.pre

C14_Witness ==
  /\ lastMap.op = "map_area"
  /\ lastMap.vaddr % LARGE_PAGE_SIZE # 0
  /\ lastMap.size >= LARGE_PAGE_SIZE
  /\ lastMap.pre.count + (lastMap.size \div LARGE_PAGE_SIZE) <= MaxLarge
  /\ memPanic = "assert_eq"

\* C15: map_area with an aligned address and size k * 2 MiB, k >= 1, takes
\* exactly k large pages from the allocator and maps page i at
\* vaddr + i * 2 MiB in increasing order of i; when it returns it has recorded
\* exactly one entry, keyed by vaddr, with physical range [p0, p0 + k * 2 MiB),
\* p0 being the address of the first page.
C15_MapAreaRecordsOneRegion ==
  (lastMap.op = "map_area" /\ WholePages(lastMap)
   /\ lastMap.res.at # "alloc_large_pages")
    => LET k == lastMap.size \div LARGE_PAGE_SIZE
           r == lastMap.res
       IN /\ Len(r.caps) = k
          /\ r.ms.count = lastMap.pre.count + k
          /\ Len(r.maps) <= k
          /\ \A i \in 1..Len(r.maps) :
               r.maps[i] = lastMap.vaddr + (i - 1) * LARGE_PAGE_SIZE
          /\ r.status = "Ok" =>
               /\ Len(r.maps) = k
               /\ regions = lastMap.pre.regions \cup
                    {Region(lastMap.vaddr, r.caps[1], r.caps[1] + k * LARGE_PAGE_SIZE)}
               /\ Cardinality(regions) = Cardinality(lastMap.pre.regions) + 1
          /\ r.status # "Ok" => regions = lastMap.pre.regions

C15_Witness ==
  /\ lastMap.op = "map_area"
  /\ WholePages(lastMap)
  /\ lastMap.size = MaxArea * LARGE_PAGE_SIZE
  /\ lastMap.res.status = "Ok"
  /\ Cardinality(regions) >= 3

IrqQuiescent == irqPanic = "none" /\ \A c \in IrqCtxs : irqPc[c] = NoCall
\* IRQ k has an interrupt record: handler capability and notification alias.
HasRecord(k) == k \in Keys(irqCaps.irq_handlers) /\ k \in Keys(irqCaps.notifications)
HasAnyRecord(k) == k \in Keys(irqCaps.irq_handlers) \/ k \in Keys(irqCaps.notifications)
\* IRQ k has an entry in the handler table.
Registered(k) == handle(handlerTable, k) # None

\* C17: whenever all register, unregister and set_enable calls have returned,
\* IRQ k has an interrupt record if and only if it has an entry in the handler
\* table.
C17_RecordIffRegistered ==
  IrqQuiescent =>
    \A k \in Irqs : /\ HasRecord(k) <=> Registered(k)
                    /\ HasAnyRecord(k) <=> Registered(k)

\* C18: a register_sel4_irq call made by set_enable or register while the
\* global enable flag is false creates no interrupt-handler capability and no
\* notification alias.
C18_EnableFlagGates ==
  (lastSel4.op = "register_sel4_irq" /\ ~lastSel4.enable) => lastSel4.made = {}

\* C19: register(k, h2) while the handler table holds h1 for k returns false,
\* leaves h1 in the table, and changes neither the interrupt records nor the
\* slot counter nor the capabilities in the kernel (it makes no kernel call).
C19_DoubleRegistration ==
  (lastReg.op = "register" /\ lastReg.had # None)
    => /\ lastReg.ret = FALSE
       /\ lastReg.kept = lastReg.had
       /\ lastReg.quiet

C19_Witness ==
  /\ lastReg.op = "register"
  /\ lastReg.had = Some("h1")
  /\ lastReg.h = "h2"
  /\ lastReg.ret = FALSE
  /\ Registered(lastReg.irq)
  /\ HasRecord(lastReg.irq)

\* C20: a dispatch of badge k, for an IRQ k that is registered with handler h
\* and has its handler capability from the start of the dispatch to its
\* return, invokes h exactly once and then acknowledges k's handler capability
\* exactly once; while the dispatch is under way the acknowledgment is never
\* in the log without the invocation before it.
C20_InvokeThenAck ==
  /\ (disp.idx = 0 /\ disp.clean)
       => disp.log = <<[ev |-> "invoke", h |-> disp.h[1]],
                       [ev |-> "ack", irq |-> disp.badge]>>
  /\ (disp.h # None /\ disp.log # <<>>) => disp.log[1].ev = "invoke"

C20_Witness ==
  /\ disp.idx = 0
  /\ disp.clean
  /\ Len(disp.log) = Len(handle_irq)
  /\ lastReg.op = "register" /\ lastReg.ret = TRUE /\ lastReg.irq = disp.badge

\* C21: a dispatch of a badge that has no handler-table entry, from its start
\* to its return, invokes no handler and acknowledges no interrupt-handler
\* capability, and nothing aborts.
C21_UnregisteredDispatchIsInert ==
  (disp.idx = 0 /\ disp.bare) => (disp.log = <<>> /\ irqPanic = "none")

C24_DisablingKeepsRegistrations ==
  /\ [][/\ (lastSel4' # lastSel4 /\ lastSel4'.op = "set_enable_false") =>
             UNCHANGED <<irqCaps, handlerTable, nextSlot, irqObjs, irqIssued, irqPc,
                         irqPanic, disp, lastReg>>
        /\ (irqCaps.enable /\ ~irqCaps'.enable) =>
             /\ irqCaps'.irq_handlers = irqCaps.irq_handlers
             /\ irqCaps'.notifications = irqCaps.notifications
             /\ irqCaps'.global_notify = irqCaps.global_notify
             /\ UNCHANGED <<handlerTable, nextSlot, irqObjs, irqIssued, irqPc,
                            irqPanic, disp, lastReg, lastSel4>>]_vars
  /\ []((disp.idx = 0 /\ disp.clean /\ ~disp.enable)
          => disp.log = <<[ev |-> "invoke", h |-> disp.h[1]],
                          [ev |-> "ack", irq |-> disp.badge]>>)

C24_Witness ==
  /\ IrqQuiescent
  /\ ~irqCaps.enable
  /\ lastSel4.op = "set_enable_false"
  /\ disp.idx = 0
  /\ disp.clean
  /\ ~disp.enable
  /\ Registered(disp.badge)
  /\ HasRecord(disp.badge)

\* C27: with register and unregister issued from two contexts and interleaved
\* in any order, once every call has returned the handler table and the
\* interrupt records agree for each IRQ k (both hold an entry for k or neither
\* does), and the handler-capability map and the notification map have the
\* same keys.
C27_TableAndRecordsAgree ==
  (irqPanic = "none" /\ \A c \in IrqCtxs : irqPc[c].op = "none")
    => /\ Keys(irqCaps.irq_handlers) = Keys(irqCaps.notifications)
       /\ \A k \in Irqs : (k \in Keys(irqCaps.irq_handlers)) = Registered(k)

\* C26: for any sequence of alloc and dealloc calls with arbitrary dealloc
\* arguments, current never decreases and stays within [base, end], the recycled
\* list has no duplicates and holds only page numbers below current, and every
\* page number alloc returns lies in the reserved range [base, end).
C26_AllocatorInvariants ==
  /\ vp_allocator.current \in VirtFrameAllocator_new.current .. vp_allocator.end
  /\ vp_allocator.end = VirtFrameAllocator_new.end
  /\ NoDup(vp_allocator.recycled)
  /\ \A i \in 1..Len(vp_allocator.recycled) : vp_allocator.recycled[i] < vp_allocator.current
  /\ \A i \in 1..Len(calls) :
       /\ calls[i].post.current >= calls[i].pre.current
       /\ (calls[i].op = "alloc" /\ calls[i].res # None) => calls[i].res[1] \in Pages

\* A unit the factory has handed out that no task under construction or alive
\* owns and that is not in the pool.
Leaked(u) ==
  /\ u \in 1..factoryCount
  /\ \A q \in Procs : task[q].untyped # u
  /\ ~Contains(RECYCLED_UNTYPED, u)

\* C25: a construction that returns an error from a copy or mint step (steps
\* 5-7) rolls nothing back: the unit taken in step 1 is owned by no task and is
\* not in the pool, the cnode, tcb and endpoint retyped from it are not released,
\* and this stays so.
C25_NoRollback ==
  [][/\ \A p \in Procs, u \in Units :
          (pc[p] = "n_caps" /\ task[p].untyped = u /\ pc'[p] = "idle" /\ ret'[p] = "Err") =>
             /\ Leaked(u)'
             /\ {"cnode", "tcb", "ep"} \subseteq retyped'[u]
             /\ RECYCLED_UNTYPED' = RECYCLED_UNTYPED
             /\ panic' = panic
     /\ \A u \in Units :
          (Leaked(u) /\ {"cnode", "tcb", "ep"} \subseteq retyped[u]) =>
             (Leaked(u)' /\ {"cnode", "tcb", "ep"} \subseteq retyped'[u])]_vars

C25_Witness ==
  \E p \in Procs, u \in Units :
    /\ pc[p] = "idle" /\ ret[p] = "Err"
    /\ Leaked(u)
    /\ {"cnode", "tcb", "ep"} \subseteq retyped[u]
    /\ \E q \in Procs : pc[q] = "ready"

\* C23: map_page and map_large_page always terminate. They make at most
\* NUM_LEVELS frame-map attempts; each attempt that fails with a lookup failure
\* allocates and maps exactly one missing page table of the address before the
\* next attempt; the first successful attempt returns with the page mapped; any
\* other kernel error aborts at once, with no further table made; and a call
\* returns normally only with the page mapped (running out of attempts aborts).
\* The tables made count the failed lookups: an attempt that is answered
\* otherwise ends the call.
C23_MappingTerminates ==
  /\ lastPage.op \in {"map_page", "map_large_page"} =>
       /\ lastPage.status \in {"Ok", "panic"}
       /\ lastPage.made \subseteq lastPage.need
       /\ Cardinality(lastPage.made) <= NUM_LEVELS
       /\ lastPage.status = "Ok" =>
            /\ Cardinality(lastPage.made) + 1 <= NUM_LEVELS
            /\ lastPage.made = lastPage.need
            /\ ~lastPage.was
            /\ lastPage.grew = {lastPage.page}
       /\ lastPage.status = "panic" =>
            /\ lastPage.grew = {}
            /\ \/ lastPage.was /\ lastPage.made = lastPage.need
               \/ Cardinality(lastPage.made) = NUM_LEVELS
       /\ (lastPage.was /\ lastPage.need = {}) =>
            (lastPage.status = "panic" /\ lastPage.made = {})
  /\ \A vaddr \in MapAddrs, n \in 0..NUM_LEVELS :
       LET r == map_page_loop(n, vspacePts, vspaceFrames, vaddr, {})
       IN r.status = "Ok" => (vaddr \div PAGE_SIZE) \in r.frames
  /\ \A vaddr \in LargeAddrs, n \in 0..NUM_LEVELS :
       LET r == map_large_page_loop(n, memPts, memMapped, vaddr)
       IN r.status = "Ok" => (vaddr \div LARGE_PAGE_SIZE) \in r.mapped

C23_Witness ==
  /\ lastPage.op = "map_page"
  /\ lastPage.status = "Ok"
  /\ Cardinality(lastPage.made) = NUM_LEVELS - 1
  /\ lastPage.page \in vspaceFrames
  /\ memMapped # HeapMapped

====
